---- MODULE Spec2Model ----
(***************************************************************************)
(* ReviewMiner API: the scrape-job registry (src/database.py), the job     *)
(* orchestration of api/routers/jobs.py, the analysis runs of              *)
(* api/routers/analysis.py and the websocket notification hub of           *)
(* api/websocket.py, as one asyncio event loop.  A step of the model is    *)
(* what one coroutine executes between two await points.  The batch        *)
(* pipeline and the response decoder of src/analyzer.py are synchronous    *)
(* code: a step is one call of the extraction client with what follows it. *)
(* The analyze command of src/main.py drives that pipeline chunk by chunk. *)
(***************************************************************************)
EXTENDS Integers, Sequences, FiniteSets, TLC

\* ------------------------------------------------------------------ bounds
MaxJobs  == 1      \* create_job requests served
NumWs    == 2      \* websocket connections ever opened
MaxFound == 1      \* most reviews a collector returns
MaxRuns  == 2      \* run_analysis tasks ever created
MaxN     == 4      \* most reviews given to analyze_with_result
MaxB     == 3      \* largest batch_size
MaxItems == 2      \* most elements of a response array, most records encoded

BROADCAST == -1    \* websocket.py:45, the "all connections" sentinel

JobIds  == 1..MaxJobs
ReqIds  == 0..MaxJobs            \* ids a request may name; 0 is never a row id
WS      == 1..NumWs
RunIds  == 1..MaxRuns
Observers == {1}                 \* the connection that watches the jobs API
HubIds  == {5, 7}                \* job ids named to the hub when it runs alone
PubJobs == HubIds \cup {BROADCAST}

None    == << >>
Some(x) == << x >>

\* str(e) of the exceptions a collector or the storage layer raises
ExcMsgs == {"", "boom"}

Worker(j) == << "worker", j >>
Cancel(j) == << "cancel", j >>
Pub       == << "pub", 0 >>
Analysis(t) == << "analysis", t >>
Callers   == {Worker(j) : j \in JobIds} \cup {Cancel(j) : j \in JobIds} \cup {Pub}
                \cup {Analysis(t) : t \in RunIds}

VARIABLES
    jobs,               \* table scrape_jobs: row id = index
    running_jobs,       \* jobs.py:56, the keys of the dict (the value is the job's task)
    task,               \* per job id: the asyncio task of run_scrape_job
    inserted,           \* per job id: rows of table reviews inserted by its worker
    events,             \* per job id: the messages jobs.py handed to broadcast, in call order
    response,           \* what the last HTTP / registry call answered
    active_connections, \* JobManager.active_connections
    job_subscriptions,  \* JobManager.job_subscriptions: a dict, DOMAIN = its keys
    conn,               \* per websocket: where its websocket_endpoint coroutine is
    bc,                 \* per caller: its call of JobManager.broadcast
    sendlog,            \* what the direct caller's current broadcast call has sent
    delivered,          \* per websocket and job id: the number, in call order, of
                        \* the latest event of jobs.py / analysis.py sent to it
    analysis_running,   \* analysis.py:36
    atask,              \* per run: where its run_analysis task is
    run,                \* the frame of an analyze_with_result call
    result,             \* its AnalysisResult
    dec,                \* a text, what it was encoded from and what it decodes to
    cli                 \* the frame of a run of the analyze command (main.py)

apiVars == << jobs, running_jobs, task, inserted, events, response,
              active_connections, job_subscriptions, conn, bc, sendlog,
              delivered, analysis_running, atask >>
libVars == << run, result, dec, cli >>

vars == << apiVars, libVars >>

jobVars == << jobs, running_jobs, task, inserted, events, response >>
hubVars == << active_connections, job_subscriptions, conn >>
anaVars == << analysis_running, atask >>

\* ------------------------------------------------------------ JobStatus
PENDING   == "pending"
RUNNING   == "running"
COMPLETED == "completed"
FAILED    == "failed"
JobStatus == {PENDING, RUNNING, COMPLETED, FAILED}

\* ------------------------------------------------------- Database (jobs)
\* INSERT INTO scrape_jobs (source, query, status, started_at): the other
\* columns take their DEFAULT (reviews_found 0, the rest NULL).
create_scrape_job(js) ==
    Append(js, [status        |-> RUNNING,
                reviews_found |-> 0,
                completed_at  |-> None,
                error_message |-> None])

\* Python truthiness of an Optional[str] argument: None and "" are falsy.
Truthy(opt) == opt # None /\ opt[1] # ""

update_status_only(js, job_id, status, reviews_found, error_message) ==
    IF job_id \in 1..Len(js) /\ Truthy(status)
    THEN [js EXCEPT ![job_id].status = status[1]]
    ELSE js

\* UPDATE scrape_jobs SET ... WHERE id = ?: no row, no change, no error.
update_scrape_job(js, job_id, status, reviews_found, error_message) ==
    IF ~Truthy(status) /\ reviews_found = None /\ ~Truthy(error_message)
    THEN js
    ELSE IF job_id \notin 1..Len(js)
    THEN js
    ELSE [js EXCEPT ![job_id] =
            [status        |-> IF Truthy(status) THEN status[1] ELSE @.status,
             completed_at  |-> IF Truthy(status) /\ status[1] \in {COMPLETED, FAILED}
                               THEN Some("now") ELSE @.completed_at,
             reviews_found |-> IF reviews_found # None THEN reviews_found[1]
                               ELSE @.reviews_found,
             error_message |-> IF Truthy(error_message) THEN error_message
                               ELSE @.error_message]]

\* ------------------------------------------------------------ JobManager
disconnect_active(ac, w) == ac \ {w}

disconnect_from_no_subscription(js, w) == js

\* lines 28-31
disconnect_subs(js, w) ==
    LET keep == {k \in DOMAIN js : js[k] \ {w} # {}}
    IN  [k \in keep |-> js[k] \ {w}]

subscribe(js, w, job_id) ==
    [k \in DOMAIN js \cup {job_id} |->
        IF k = job_id
        THEN (IF job_id \in DOMAIN js THEN js[job_id] ELSE {}) \cup {w}
        ELSE js[k]]

\* One call of broadcast.  phase: idle (no call yet), subs (the loop of
\* line 54), active (the loop of line 46 or 61), done (returned).  todo is
\* what is left of the list(...) snapshot the loop iterates.
IdleCall ==
    [phase |-> "idle", job_id |-> 0, status |-> "", todo |-> {}]

\* line 45: is this the broadcast-to-all call?
is_sentinel(job_id) == job_id = BROADCAST

subscribers_of_any_job(js, job_id) == UNION {js[k] : k \in DOMAIN js}

\* lines 53-54: the websockets of the first loop
job_subscribers(js, job_id) ==
    IF job_id \in DOMAIN js THEN js[job_id] ELSE {}

enter_active_and_subscribed(call, ac) ==
    LET all == ac \cup UNION {job_subscriptions[k] : k \in DOMAIN job_subscriptions}
    IN  IF all = {}
        THEN [call EXCEPT !.phase = "done", !.todo = {}]
        ELSE [call EXCEPT !.phase = "active", !.todo = all]

\* lines 46 / 61: enter the loop over list(self.active_connections)
enter_active(call, ac) ==
    IF ac = {}
    THEN [call EXCEPT !.phase = "done", !.todo = {}]
    ELSE [call EXCEPT !.phase = "active", !.todo = ac]

\* broadcast up to its first await (or to its return when nobody is sent to)
begin_broadcast(job_id, status, ac, js) ==
    LET call == [IdleCall EXCEPT !.job_id = job_id, !.status = status]
        subs == job_subscribers(js, job_id)
    IN  IF is_sentinel(job_id) THEN enter_active(call, ac)
        ELSE IF subs # {} THEN [call EXCEPT !.phase = "subs", !.todo = subs]
        ELSE enter_active(call, ac)

\* one send_text of a loop has returned (sent) or raised; ac is
\* active_connections after the except branch, if it ran
after_send(call, w, ac) ==
    LET c1 == [call EXCEPT !.todo = @ \ {w}]
    IN  IF c1.todo # {} THEN c1
        ELSE IF c1.phase = "subs" THEN enter_active(c1, ac)
        ELSE [c1 EXCEPT !.phase = "done"]

\* The record kept of the direct caller's broadcast call.  tried counts the
\* send_text calls per websocket; subs0 is the subscribers of the job id when
\* the call started; active1 is active_connections when the loop over all
\* connections started (for the sentinel: when the call started).
SubscribedTo(js, job_id) == IF job_id \in DOMAIN js THEN js[job_id] ELSE {}

NoLog ==
    [tried |-> [w \in WS |-> 0], subs0 |-> {}, active1 |-> {}]

LogBegin(call, job_id, ac, js) ==
    [NoLog EXCEPT !.subs0 = SubscribedTo(js, job_id),
                  !.active1 = IF call.phase # "subs" THEN ac ELSE {}]

LogSend(log, before, after, w, ac) ==
    [log EXCEPT !.tried[w] = @ + 1,
                !.active1 = IF before.phase = "subs" /\ after.phase # "subs"
                            THEN ac ELSE @]



\* ------------------------------------------------------- websocket_endpoint
\* conn[w]: "new" (no connection yet), "open" (the endpoint awaits
\* receive_text), "closed" (the endpoint coroutine has ended).
SendOutcomes == {"sent", "WebSocketDisconnect", "Exception"}

\* lines 75, 19-22
connect(w) ==
    /\ conn[w] = "new"
    /\ conn' = [conn EXCEPT ![w] = "open"]
    /\ active_connections' = active_connections \cup {w}
    /\ UNCHANGED << job_subscriptions, bc, sendlog, jobVars, delivered, anaVars, libVars >>

\* how an exception raised inside the while loop leaves the endpoint:
\* WebSocketDisconnect reaches line 99-100, any other exception escapes.
endpoint_raises(w, outcome, js) ==
    /\ conn' = [conn EXCEPT ![w] = "closed"]
    /\ IF outcome = "WebSocketDisconnect"
       THEN /\ active_connections' = disconnect_active(active_connections, w)
            /\ job_subscriptions' = disconnect_subs(js, w)
       ELSE /\ active_connections' = active_connections
            /\ job_subscriptions' = js

\* lines 85-90: a subscribe message, then the "subscribed" reply is sent
receive_subscribe(w, job_id, outcome) ==
    /\ conn[w] = "open"
    /\ LET js == subscribe(job_subscriptions, w, job_id)
       IN  IF outcome = "sent"
           THEN /\ job_subscriptions' = js
                /\ UNCHANGED << conn, active_connections >>
           ELSE endpoint_raises(w, outcome, js)
    /\ UNCHANGED << bc, sendlog, jobVars, delivered, anaVars, libVars >>

\* lines 93-94: a ping message whose "pong" reply cannot be sent
receive_ping(w, outcome) ==
    /\ conn[w] = "open"
    /\ outcome # "sent"
    /\ endpoint_raises(w, outcome, job_subscriptions)
    /\ UNCHANGED << bc, sendlog, jobVars, delivered, anaVars, libVars >>

\* line 79 raises WebSocketDisconnect: the client has gone
receive_disconnect(w) ==
    /\ conn[w] = "open"
    /\ endpoint_raises(w, "WebSocketDisconnect", job_subscriptions)
    /\ UNCHANGED << bc, sendlog, jobVars, delivered, anaVars, libVars >>

\* ------------------------------------------------------------ jobs.py
Event(job_id, status, reviews_found, error) ==
    [job_id |-> job_id, status |-> status,
     reviews_found |-> reviews_found, error |-> error]

Resp(op, id, code, status) ==
    [op |-> op, id |-> id, code |-> code, status |-> status]

task_cancel_ignored(t) == t

\* Task.cancel(): a request, delivered when the task next runs; a finished
\* task ignores it.
task_cancel(t) ==
    IF t.pc = "ended" THEN t ELSE [t EXCEPT !.must_cancel = TRUE]

except_BaseException(exc) == TRUE

except_ValueError(exc) == exc.cls = "ValueError"

\* line 123, "except Exception": CancelledError is a BaseException
except_Exception(exc) == exc.cls = "Exception"

cancellable_unchecked(status) == TRUE

cancellable_unless_completed(status) == status # "completed"

\* line 224
cancellable(status) == status \in {"pending", "running"}

\* the worker's pc once its broadcast call stands at `call`: a call made
\* from the else / except branch that has returned falls into finally
pc_after(pc, call) ==
    IF call.phase = "done" /\ pc \in {"completing", "failing"} THEN "ended" ELSE pc

\* lines 132-135
finally(j, pc) ==
    IF pc = "ended" THEN running_jobs \ {j} ELSE running_jobs

\* lines 176-208
create_job ==
    /\ Len(jobs) < MaxJobs
    /\ LET js     == create_scrape_job(jobs)
           job_id == Len(js)
       IN  /\ jobs' = js
           /\ task' = [task EXCEPT ![job_id] = [pc |-> "new", must_cancel |-> FALSE]]
           /\ running_jobs' = running_jobs \cup {job_id}
           /\ response' = Resp("create_job", job_id, 200, js[job_id].status)
    /\ UNCHANGED << inserted, events, hubVars, bc, sendlog, delivered, anaVars, libVars >>

\* lines 59-64: the task starts and runs to the first send of broadcast
run_scrape_job_start(j) ==
    /\ task[j].pc = "new"
    /\ ~task[j].must_cancel
    /\ LET call == begin_broadcast(j, "running", active_connections, job_subscriptions)
       IN  /\ bc' = [bc EXCEPT ![Worker(j)] = call]
           /\ task' = [task EXCEPT ![j].pc = "running"]
    /\ events' = [events EXCEPT ![j] = Append(@, Event(j, "running", None, None))]
    /\ UNCHANGED << jobs, running_jobs, inserted, response, hubVars, sendlog, delivered, anaVars, libVars >>

\* lines 106-121: the collector returned n reviews, count of them were new rows
run_scrape_job_store(j, n, count) ==
    LET found == IF n > 0 THEN count ELSE 0
        call  == begin_broadcast(j, "completed", active_connections, job_subscriptions)
        pc    == pc_after("completing", call)
    IN  /\ inserted' = [inserted EXCEPT ![j] = @ + found]
        /\ jobs' = update_scrape_job(jobs, j, Some(COMPLETED), Some(found), None)
        /\ events' = [events EXCEPT ![j] = Append(@, Event(j, "completed", Some(found), None))]
        /\ bc' = [bc EXCEPT ![Worker(j)] = call]
        /\ task' = [task EXCEPT ![j].pc = pc]
        /\ running_jobs' = finally(j, pc)

\* lines 123-135: exc is raised at the await point the task stands at
run_scrape_job_raise(j, exc) ==
    IF except_Exception(exc)
    THEN LET call == begin_broadcast(j, "failed", active_connections, job_subscriptions)
             pc   == pc_after("failing", call)
         IN  /\ jobs' = update_scrape_job(jobs, j, Some(FAILED), None, Some(exc.msg))
             /\ events' = [events EXCEPT ![j] = Append(@, Event(j, "failed", None, Some(exc.msg)))]
             /\ bc' = [bc EXCEPT ![Worker(j)] = call]
             /\ task' = [task EXCEPT ![j] = [pc |-> pc, must_cancel |-> FALSE]]
             /\ running_jobs' = finally(j, pc)
             /\ UNCHANGED inserted
    ELSE /\ task' = [task EXCEPT ![j] = [pc |-> "ended", must_cancel |-> FALSE]]
         /\ running_jobs' = finally(j, "ended")
         /\ UNCHANGED << jobs, events, bc, inserted >>

\* lines 66-121: the await of the collector ends, with reviews or an exception
\* (raised by the collector, or by insert_reviews_batch when n > 0)
run_scrape_job_collected(j, outcome) ==
    /\ task[j].pc = "running"
    /\ bc[Worker(j)].phase = "done"
    /\ ~task[j].must_cancel
    /\ IF outcome.kind = "reviews"
       THEN run_scrape_job_store(j, outcome.n, outcome.count)
       ELSE run_scrape_job_raise(j, [cls |-> "Exception", msg |-> outcome.msg])
    /\ UNCHANGED << response, hubVars, sendlog, delivered, anaVars, libVars >>

Outcomes ==
    {o \in {[kind |-> "reviews", n |-> n, count |-> c, msg |-> ""] :
                n \in 0..MaxFound, c \in 0..MaxFound} : o.count <= o.n}
    \cup {[kind |-> "raise", n |-> 0, count |-> 0, msg |-> m] : m \in ExcMsgs}

\* the cancelled task runs next: CancelledError is thrown into the coroutine
\* at the await it is suspended at; a coroutine that never started has no
\* try block around it yet
run_scrape_job_cancelled(j) ==
    /\ task[j].must_cancel
    /\ task[j].pc \notin {"none", "ended"}
    /\ IF task[j].pc = "new"
       THEN /\ task' = [task EXCEPT ![j] = [pc |-> "ended", must_cancel |-> FALSE]]
            /\ UNCHANGED << jobs, events, bc, inserted, running_jobs >>
       ELSE IF task[j].pc = "running"
       THEN run_scrape_job_raise(j, [cls |-> "CancelledError", msg |-> ""])
       ELSE /\ task' = [task EXCEPT ![j] = [pc |-> "ended", must_cancel |-> FALSE]]
            /\ running_jobs' = finally(j, "ended")
            /\ UNCHANGED << jobs, events, bc, inserted >>
    /\ UNCHANGED << response, hubVars, sendlog, delivered, anaVars, libVars >>

\* lines 211-237
cancel_job(job_id) ==
    IF job_id \notin 1..Len(jobs)
    THEN /\ response' = Resp("cancel_job", job_id, 404, "")
         /\ UNCHANGED << jobs, running_jobs, task, inserted, events, hubVars, bc, sendlog, delivered, anaVars, libVars >>
    ELSE IF ~cancellable(jobs[job_id].status)
    THEN /\ response' = Resp("cancel_job", job_id, 400, "")
         /\ UNCHANGED << jobs, running_jobs, task, inserted, events, hubVars, bc, sendlog, delivered, anaVars, libVars >>
    ELSE LET call == begin_broadcast(job_id, "cancelled",
                                     active_connections, job_subscriptions)
         IN  /\ task' = IF job_id \in running_jobs
                        THEN [task EXCEPT ![job_id] = task_cancel(@)]
                        ELSE task
             /\ running_jobs' = running_jobs \ {job_id}
             /\ jobs' = update_scrape_job(jobs, job_id, Some(FAILED), None,
                                          Some("Cancelled by user"))
             /\ events' = [events EXCEPT ![job_id] =
                                Append(@, Event(job_id, "cancelled", None, None))]
             /\ bc' = [bc EXCEPT ![Cancel(job_id)] = call]
             /\ response' = IF call.phase = "done"
                            THEN Resp("cancel_job", job_id, 200, "")
                            ELSE response
             /\ UNCHANGED << inserted, hubVars, sendlog, delivered, anaVars, libVars >>

\* ------------------------------------------------------------ analysis.py
\* analyzer.py:61-66: __init__(self, api_key, model=..., max_retries=3); a
\* call that passes no api_key raises TypeError before the body runs
PainPointAnalyzer(args) ==
    IF "api_key" \in args THEN "analyzer" ELSE "TypeError"

always_idle(flag) == FALSE

\* line 119
already_running(flag) == flag

\* lines 114-141; reviews is the number of rows the query of lines 125-128
\* returns.  The handler has no await: it runs in one step.
start_analysis(reviews) ==
    /\ IF already_running(analysis_running)
       THEN /\ response' = Resp("start_analysis", 0, 409, "")
            /\ UNCHANGED anaVars
       ELSE IF reviews = 0
       THEN /\ response' = Resp("start_analysis", 0, 200, "No reviews to analyze")
            /\ UNCHANGED anaVars
       ELSE \E t \in RunIds :
               /\ atask[t] = "none"
               /\ \A u \in 1..(t - 1) : atask[u] # "none"
               /\ analysis_running' = TRUE
               /\ atask' = [atask EXCEPT ![t] = "new"]
               /\ response' = Resp("start_analysis", t, 200, "Analysis started")
    /\ UNCHANGED << jobs, running_jobs, task, inserted, events, hubVars, bc,
                    sendlog, delivered, libVars >>

ended_without_reset(t) ==
    /\ atask' = [atask EXCEPT ![t] = "ended"]
    /\ UNCHANGED analysis_running

\* lines 110-111; the task ends with it
run_analysis_finally(t) ==
    /\ analysis_running' = FALSE
    /\ atask' = [atask EXCEPT ![t] = "ended"]

\* lines 43-45 and 102-108: the task starts; PainPointAnalyzer() is called
\* with no argument, the TypeError is caught by "except Exception" and the
\* failed event is handed to broadcast (lines 47-100 are never reached)
run_analysis_start(t) ==
    /\ atask[t] = "new"
    /\ PainPointAnalyzer({}) = "TypeError"
    /\ LET call == begin_broadcast(BROADCAST, "failed", active_connections,
                                   job_subscriptions)
       IN  /\ bc' = [bc EXCEPT ![Analysis(t)] = call]
           /\ IF call.phase = "done"
              THEN run_analysis_finally(t)
              ELSE /\ atask' = [atask EXCEPT ![t] = "failing"]
                   /\ UNCHANGED analysis_running
    /\ UNCHANGED << jobVars, hubVars, sendlog, delivered, libVars >>

\* the number, in call order, of the event a caller's broadcast call carries:
\* for a job its place among the job's events, for analysis the run
EventNo(c) ==
    IF c[1] = "analysis" THEN c[2]
    ELSE CHOOSE i \in 1..Len(events[c[2]]) :
            events[c[2]][i].status = bc[c].status

\* ------------------------------------------------- broadcast, one send_text
\* what the caller does when its broadcast call has returned, up to its next
\* await or its end
resume(c, call) ==
    IF call.phase = "done" /\ c[1] = "worker"
    THEN LET pc == pc_after(task[c[2]].pc, call)
         IN  /\ task' = [task EXCEPT ![c[2]].pc = pc]
             /\ running_jobs' = finally(c[2], pc)
             /\ UNCHANGED << response, anaVars >>
    ELSE IF call.phase = "done" /\ c[1] = "cancel"
    THEN /\ response' = Resp("cancel_job", c[2], 200, "")
         /\ UNCHANGED << task, running_jobs, anaVars >>
    ELSE IF call.phase = "done" /\ c[1] = "analysis"
    THEN /\ run_analysis_finally(c[2])
         /\ UNCHANGED << task, running_jobs, response >>
    ELSE UNCHANGED << task, running_jobs, response, anaVars >>

\* lines 47-50, 55-58, 62-65: the pending send_text to w returns or raises
send_text(c, w, sent) ==
    /\ bc[c].phase \in {"subs", "active"}
    /\ w \in bc[c].todo
    /\ sent => conn[w] = "open"
    /\ c[1] = "worker" => (~task[c[2]].must_cancel /\ task[c[2]].pc # "ended")
    /\ LET ac   == IF sent THEN active_connections
                   ELSE disconnect_active(active_connections, w)
           js   == IF sent THEN job_subscriptions
                   ELSE disconnect_subs(job_subscriptions, w)
           call == after_send(bc[c], w, ac)
       IN  /\ active_connections' = ac
           /\ job_subscriptions' = js
           /\ bc' = [bc EXCEPT ![c] = call]
           /\ sendlog' = IF c = Pub
                         THEN LogSend(sendlog, bc[c], call, w, ac)
                         ELSE sendlog
           /\ delivered' = IF sent /\ c # Pub
                           THEN [delivered EXCEPT ![w][bc[c].job_id] = EventNo(c)]
                           ELSE delivered
           /\ resume(c, call)
    /\ UNCHANGED << conn, jobs, inserted, events, libVars >>

\* a caller outside jobs.py (run_analysis, a test) calls broadcast
publish(job_id) ==
    /\ bc[Pub].phase \in {"idle", "done"}
    /\ LET call == begin_broadcast(job_id, "event", active_connections, job_subscriptions)
       IN  /\ bc' = [bc EXCEPT ![Pub] = call]
           /\ sendlog' = LogBegin(call, job_id, active_connections, job_subscriptions)
    /\ UNCHANGED << jobVars, hubVars, delivered, anaVars, libVars >>

\* ------------------------------------------------- analyzer.py, the decoder
\* A response text is a sequence of tokens.  The tokens are the pieces the
\* decoder's regular expressions and json.loads tell apart: a code fence, the
\* word json after a fence, the brackets and the comma of the array, prose,
\* and whole array elements.  A JSON object one of whose strings contains a
\* fence is three tokens: the text up to the fence, the fence, the rest.
Keys == {"review_number", "pain_point_category", "verbatim_quote",
         "emotional_intensity", "implied_need"}

\* a JSON value of a member of an object; ints are kept as their digits
J(t, v) == [t |-> t, v |-> v]
ABSENT  == J("absent", "")
NULL    == J("null", "")
Jint(d) == J("int", d)
Jstr(s) == J("str", s)

NoFields == [k \in Keys |-> ABSENT]

Token(kind) == [k |-> kind, f |-> NoFields, tc |-> FALSE]
FENCE   == Token("fence")      \* three backquotes
JSONTAG == Token("json")
LBRACK  == Token("[")
RBRACK  == Token("]")
COMMA   == Token(",")
PROSE   == Token("prose")
NUMBER  == Token("num")        \* an array element that is a number, not an object
CUTL    == Token("cutL")       \* an object's text up to a fence inside a string
CUTR    == Token("cutR")       \* the rest of that object

\* an object; tc: there is a comma before its closing brace
Obj(f, tc) == [k |-> "obj", f |-> f, tc |-> tc]

Digits == ("0" :> 0) @@ ("1" :> 1) @@ ("2" :> 2) @@ ("3" :> 3)

\* strings that contain a code fence (three backquotes)
Fenced == {"see (fence) here"}
HasFence(s) == s \in Fenced

\* strings in which a comma is followed by a closing bracket, and what
\* re.sub(r",\s*([}\]])", r"\1", ...) of line 309 makes of a string.  (A
\* bracket inside a string of an array that has lost its closing bracket gives
\* a text that json.loads rejects before and after _fix_json, as it does for
\* the text with no closing bracket at all.)
CommaClose == {"no refund, ] they said"}
sub_comma_close(s) == IF s \in CommaClose THEN "no refund] they said" ELSE s

\* line 309 on the members of an object
sub_members(f) ==
    [k \in Keys |-> IF f[k].t = "str" THEN Jstr(sub_comma_close(f[k].v)) ELSE f[k]]

\* int(x) of line 273
int(x) ==
    IF x.t = "null" THEN [ok |-> FALSE, v |-> 0, cls |-> "TypeError"]
    ELSE IF x.v \in DOMAIN Digits THEN [ok |-> TRUE, v |-> Digits[x.v], cls |-> ""]
    ELSE [ok |-> FALSE, v |-> 0, cls |-> "ValueError"]

\* str(x) of lines 274-277
str(x) == IF x.t = "null" THEN "None" ELSE x.v

\* str.lower() of line 276, on the strings used here
lower(s) ==
    CASE s = "HIGH" -> "high"
      [] s = "None" -> "none"
      [] OTHER      -> s

\* dict.get(key, default)
get(item, key, default) ==
    IF item.f[key] = ABSENT THEN default ELSE item.f[key]

\* re.findall(code_block_pattern, text) of lines 290-291 from position from
\* on (a fence, json if it is there, the shortest text up to the next fence):
\* the captured groups, left to right
RECURSIVE findall_code_block(_, _)
findall_code_block(text, from) ==
    LET opens == {i \in from..Len(text) : text[i] = FENCE}
    IN  IF opens = {} THEN << >>
        ELSE LET open   == CHOOSE i \in opens : \A j \in opens : i <= j
                 closes == {j \in opens : j > open}
             IN  IF closes = {} THEN << >>
                 ELSE LET close == CHOOSE i \in closes : \A j \in closes : i <= j
                          first == IF text[open + 1] = JSONTAG THEN open + 2
                                   ELSE open + 1
                      IN  << SubSeq(text, first, close - 1) >>
                              \o findall_code_block(text, close + 1)

Found(v)  == [some |-> TRUE, v |-> v]
NotFound  == [some |-> FALSE, v |-> << >>]

\* lines 298-304: the text from the first "[" to the last "]"
raw_array(text) ==
    LET starts == {i \in 1..Len(text) : text[i] = LBRACK}
        ends   == {i \in 1..Len(text) : text[i] = RBRACK}
    IN  IF starts = {} \/ ends = {} THEN NotFound
        ELSE LET bracket_start == CHOOSE i \in starts : \A j \in starts : i <= j
                 bracket_end   == CHOOSE i \in ends : \A j \in ends : i >= j
             IN  IF bracket_end > bracket_start
                 THEN Found(SubSeq(text, bracket_start, bracket_end))
                 ELSE NotFound

\* lines 292-296: the first match that starts with "[", if there is one
first_array_block(matches, text) ==
    LET hits == {i \in 1..Len(matches) :
                    Len(matches[i]) > 0 /\ matches[i][1] = LBRACK}
    IN  IF hits # {}
        THEN Found(matches[CHOOSE i \in hits : \A j \in hits : i <= j])
        ELSE raw_array(text)

\* lines 287-304
extract_json(text) == first_array_block(findall_code_block(text, 1), text)

\* json.loads of a text that starts with "[": the elements of the array, or
\* JSONDecodeError
json_loads(json_text) ==
    LET n     == Len(json_text)
        inner == SubSeq(json_text, 2, n - 1)
        m     == Len(inner)
        value(tok) == tok = NUMBER \/ (tok.k = "obj" /\ ~tok.tc)
        wellformed ==
            /\ n >= 2 /\ json_text[1] = LBRACK /\ json_text[n] = RBRACK
            /\ m = 0 \/ m % 2 = 1
            /\ \A i \in 1..m : IF i % 2 = 1 THEN value(inner[i])
                                            ELSE inner[i] = COMMA
    IN  IF wellformed
        THEN [ok |-> TRUE,
              data |-> IF m = 0 THEN << >>
                       ELSE [i \in 1..((m + 1) \div 2) |-> inner[2 * i - 1]]]
        ELSE [ok |-> FALSE, data |-> << >>]

\* lines 306-314: re.sub(r",\s*([}\]])", r"\1", json_text)
RECURSIVE fix_json(_)
fix_json(json_text) ==
    IF json_text = << >> THEN << >>
    ELSE LET tok  == Head(json_text)
             rest == Tail(json_text)
         IN  IF tok = COMMA /\ rest # << >> /\ Head(rest) = RBRACK
             THEN fix_json(rest)
             ELSE << IF tok.k = "obj" THEN Obj(sub_members(tok.f), FALSE) ELSE tok >>
                      \o fix_json(rest)

ExtractedPainPoint(rn, cat, quote, intensity, need) ==
    [review_number |-> rn, pain_point_category |-> cat, verbatim_quote |-> quote,
     emotional_intensity |-> intensity, implied_need |-> need]

\* lines 272-283 for one object: the records appended for it (none or one)
pain_points_of(item) ==
    LET rn == int(get(item, "review_number", Jint("0")))
        pp == ExtractedPainPoint(
                  rn.v,
                  str(get(item, "pain_point_category", Jstr("Unknown"))),
                  str(get(item, "verbatim_quote", Jstr(""))),
                  lower(str(get(item, "emotional_intensity", Jstr("medium")))),
                  str(get(item, "implied_need", Jstr(""))))
    IN  IF ~rn.ok THEN << >>
        ELSE IF pp.verbatim_quote = "" THEN << >>
        ELSE << pp >>

RECURSIVE pain_points_of_all(_)
pain_points_of_all(data) ==
    IF data = << >> THEN << >>
    ELSE pain_points_of(Head(data)) \o pain_points_of_all(Tail(data))

Returned(v) == [kind |-> "list", v |-> v, cls |-> ""]
Raised(cls) == [kind |-> "raise", v |-> << >>, cls |-> cls]

\* lines 265-285; item.get of line 273 raises AttributeError for an element
\* that is not an object, which "except (ValueError, TypeError)" lets pass
parse_data(data) ==
    IF \E i \in 1..Len(data) : data[i].k # "obj"
    THEN Raised("AttributeError")
    ELSE Returned(pain_points_of_all(data))

\* lines 259-263: the second json.loads, after _fix_json
parse_fixed(second) ==
    IF second.ok THEN parse_data(second.data) ELSE Returned(<< >>)

\* lines 253-258: the first json.loads
parse_json_text(first, json_text) ==
    IF first.ok THEN parse_data(first.data)
    ELSE parse_fixed(json_loads(fix_json(json_text)))

\* lines 247-251
parse_extracted(json_text) ==
    IF ~json_text.some THEN Returned(<< >>)
    ELSE parse_json_text(json_loads(json_text.v), json_text.v)

\* lines 244-285
parse_response(response_text) == parse_extracted(extract_json(response_text))

\* json.dumps of one record, as tokens
dumps_record(pp) ==
    IF \E s \in {pp.pain_point_category, pp.verbatim_quote,
                 pp.emotional_intensity, pp.implied_need} : HasFence(s)
    THEN << CUTL, FENCE, CUTR >>
    ELSE << Obj([k \in Keys |->
                   CASE k = "review_number"       -> Jint(CHOOSE d \in DOMAIN Digits :
                                                            Digits[d] = pp.review_number)
                     [] k = "pain_point_category" -> Jstr(pp.pain_point_category)
                     [] k = "verbatim_quote"      -> Jstr(pp.verbatim_quote)
                     [] k = "emotional_intensity" -> Jstr(pp.emotional_intensity)
                     [] OTHER                     -> Jstr(pp.implied_need)],
                FALSE) >>

\* the elements of an array text, separated by commas
RECURSIVE join(_)
join(elems) ==
    IF elems = << >> THEN << >>
    ELSE IF Len(elems) = 1 THEN Head(elems)
    ELSE Head(elems) \o << COMMA >> \o join(Tail(elems))

\* the records as a JSON array in a json code fence
\* (tests/test_analyzer.py:41-62)
encode(records) ==
    << FENCE, JSONTAG, LBRACK >>
        \o (IF records = << >> THEN << >>
            ELSE join([i \in 1..Len(records) |-> dumps_record(records[i])]))
        \o << RBRACK, FENCE >>

\* ------------------------------------------------ analyzer.py, the pipeline
\* the exceptions client.messages.create raises; all are anthropic.APIError
TransientErrors == {"APIConnectionError", "RateLimitError", "InternalServerError"}
PermanentErrors == {"BadRequestError", "AuthenticationError"}
APIError == TransientErrors \cup PermanentErrors

\* src/exceptions.py: AnalyzerAPIError and AnalyzerParseError
AnalyzerError == {"AnalyzerAPIError", "AnalyzerParseError"}

BaseFields ==
    [k \in Keys |->
        CASE k = "review_number"       -> Jint("1")
          [] k = "pain_point_category" -> Jstr("Price")
          [] k = "verbatim_quote"      -> Jstr("too expensive")
          [] k = "emotional_intensity" -> Jstr("high")
          [] OTHER                     -> Jstr("cheaper")]

With(key, val) == [BaseFields EXCEPT ![key] = val]

\* the response texts the extraction call returns to the pipeline: an array
\* of one record in a fence, prose with no array, an array of a number
GoodText      == << FENCE, JSONTAG, LBRACK, Obj(BaseFields, FALSE), RBRACK, FENCE >>
ProseText     == << PROSE >>
NonObjectText == << LBRACK, NUMBER, RBRACK >>
ResponseTexts == {GoodText, ProseText, NonObjectText}

\* what one call of client.messages.create does: return a text or raise
CallOutcomes ==
    {[kind |-> "text", cls |-> "", text |-> t] : t \in ResponseTexts}
        \cup {[kind |-> "raise", cls |-> c, text |-> << >>] : c \in APIError}

\* lines 211-217: an exception of the decoder is re-raised as
\* AnalyzerParseError
parsed_or_AnalyzerParseError(parsed) ==
    IF parsed.kind = "raise" THEN Raised("AnalyzerParseError") ELSE parsed

\* lines 194-217: what leaves the body of _process_single_batch for a call
\* outcome.  Every APIError is re-raised as AnalyzerAPIError.
process_single_batch_body(outcome) ==
    IF outcome.kind = "raise"
    THEN IF outcome.cls \in APIError THEN Raised("AnalyzerAPIError")
         ELSE Raised(outcome.cls)
    ELSE parsed_or_AnalyzerParseError(parse_response(outcome.text))

retry_if_AnalyzerAPIError(cls) == cls = "AnalyzerAPIError"

\* lines 170-174: the classes the decorator retries, tested on the exception
\* that left the body
retry_if_exception_type(cls) == cls \in TransientErrors

\* line 168
stop_after_attempt(attempt) == attempt >= 3

except_AnalyzerParseError(cls) == cls = "AnalyzerParseError"

\* line 137
except_AnalyzerError_or_APIError(cls) == cls \in AnalyzerError \cup APIError

never_break(fail_fast) == FALSE

\* lines 143-145: if fail_fast: break
break_if(fail_fast) == fail_fast

range_step_after_gap(i, batch_size) == i + batch_size + 1

\* line 124: the next value of range(0, len(reviews), batch_size)
range_step(i, batch_size) == i + batch_size

min(a, b) == IF a <= b THEN a ELSE b

\* line 125: len(reviews[i:i + batch_size])
batch_len(n, i, batch_size) == min(batch_size, n - i)

\* lines 27-35
AnalysisResult ==
    [pain_points |-> << >>, successful_batches |-> 0, failed_batches |-> 0,
     total_reviews_processed |-> 0, errors |-> << >>]

\* the frame of one analyze_with_result call: its arguments (n is
\* len(reviews)), the loop variable i, the attempt number of the decorator,
\* and a record of the batches settled so far and of the calls made for the
\* current one
IdleRun ==
    [pc |-> "idle", n |-> 0, batch_size |-> 1, fail_fast |-> FALSE,
     i |-> 0, attempt |-> 1, calls |-> << >>, log |-> << >>]

RunArgs ==
    {[IdleRun EXCEPT !.pc = "start", !.n = n, !.batch_size = b, !.fail_fast = ff] :
        n \in 0..MaxN, b \in 1..MaxB, ff \in BOOLEAN}

\* lines 115-124: up to the first extraction call
analyze_with_result ==
    /\ run.pc = "start"
    /\ run' = [run EXCEPT !.pc = IF run.n = 0 THEN "returned" ELSE "call"]
    /\ result' = AnalysisResult
    /\ UNCHANGED << dec, cli, apiVars >>

\* the for statement takes its next value or ends (and line 165 returns)
next_batch(r) ==
    LET i == range_step(r.i, r.batch_size)
    IN  IF i < r.n
        THEN [r EXCEPT !.i = i, !.attempt = 1, !.calls = << >>, !.pc = "call"]
        ELSE [r EXCEPT !.attempt = 1, !.calls = << >>, !.pc = "returned"]

Settled(r, outcome, calls, left) ==
    [start |-> r.i, len |-> batch_len(r.n, r.i, r.batch_size), calls |-> calls,
     text |-> outcome.text, ok |-> left.kind = "list", records |-> left.v]

\* lines 130-148 with the decorator of lines 167-177: left is what left the
\* body of _process_single_batch, a list or an exception
after_call(outcome, left) ==
       LET calls     == Append(run.calls, IF outcome.kind = "text" THEN "text"
                                          ELSE outcome.cls)
           batch_num == run.i \div run.batch_size + 1
           r1        == [run EXCEPT !.log = Append(@, Settled(run, outcome, calls, left))]
       IN  IF left.kind = "list"
           THEN /\ result' = [result EXCEPT
                       !.pain_points = @ \o left.v,
                       !.successful_batches = @ + 1,
                       !.total_reviews_processed =
                           @ + batch_len(run.n, run.i, run.batch_size)]
                /\ run' = next_batch(r1)
           ELSE IF retry_if_exception_type(left.cls) /\ ~stop_after_attempt(run.attempt)
           THEN /\ run' = [run EXCEPT !.attempt = @ + 1, !.calls = calls]
                /\ UNCHANGED result
           ELSE IF except_AnalyzerError_or_APIError(left.cls)
           THEN /\ result' = [result EXCEPT
                       !.failed_batches = @ + 1,
                       !.errors = Append(@, [batch_num |-> batch_num, e |-> left.cls])]
                /\ run' = IF break_if(run.fail_fast)
                          THEN [r1 EXCEPT !.pc = "returned"]
                          ELSE next_batch(r1)
           ELSE /\ run' = [r1 EXCEPT !.pc = "raised"]
                /\ UNCHANGED result

\* lines 124-148 and 167-217: one call of client.messages.create for the
\* current batch ends with outcome, and the code runs on to the next call or
\* to the end of analyze_with_result
process_single_batch(outcome) ==
    /\ run.pc = "call"
    /\ after_call(outcome, process_single_batch_body(outcome))
    /\ UNCHANGED << dec, cli, apiVars >>

\* ------------------------------------------------- main.py, analyze
\* The frame of one run of the analyze command over n reviews: the loop
\* variable i, a record of the chunks handled (with the failed_batches of the
\* AnalysisResult of each), the pain points inserted (the position in reviews
\* of the review each was given to, with the chunk and the review_number it
\* came from) and the positions of the reviews marked processed.
IdleCli ==
    [pc |-> "idle", n |-> 0, batch_size |-> 1, i |-> 0,
     chunks |-> << >>, saved |-> << >>, processed |-> {}]

CliArgs ==
    {[IdleCli EXCEPT !.pc = "start", !.n = n, !.batch_size = b] :
        n \in 0..MaxN, b \in 1..MaxB}

\* the texts the extraction call returns to the command: an array of one
\* record with no review_number, with 1 or with 2, and prose.  (Their
\* emotional_intensity is one EmotionalIntensity(...) of line 305 accepts.)
CliTexts ==
    {<< LBRACK, Obj(With("review_number", v), FALSE), RBRACK >> :
        v \in {ABSENT, Jint("1"), Jint("2")}} \cup {ProseText}

CliOutcomes ==
    {[kind |-> "text", cls |-> "", text |-> t] : t \in CliTexts}
        \cup {[kind |-> "raise", cls |-> "RateLimitError", text |-> << >>]}

\* lines 251-280: no reviews, or the loop is entered
analyze ==
    /\ cli.pc = "start"
    /\ cli' = [cli EXCEPT !.pc = IF cli.n = 0 THEN "done" ELSE "loop"]
    /\ UNCHANGED << run, result, dec, apiVars >>

\* lines 281-287 and analyzer.py:93: analyze_with_result(batch, len(batch))
analyze_batch_sync ==
    /\ cli.pc = "loop"
    /\ cli' = [cli EXCEPT !.pc = "awaiting"]
    /\ run' = [IdleRun EXCEPT !.pc = "start",
                              !.n = batch_len(cli.n, cli.i, cli.batch_size),
                              !.batch_size = batch_len(cli.n, cli.i, cli.batch_size)]
    /\ UNCHANGED << result, dec, apiVars >>

\* lines 296-309: the pain points of a chunk that starts at i, each with the
\* position global_idx it is given to; those with no such review are dropped
\* (review_id_map has the keys 0 .. n - 1, and row ids are not 0)
attributed(pain_points, i, len, n) ==
    SelectSeq([k \in 1..Len(pain_points) |->
                  [review        |-> i + (pain_points[k].review_number - 1),
                   start         |-> i,
                   len           |-> len,
                   review_number |-> pain_points[k].review_number]],
              LAMBDA pp : pp.review \in 0..(n - 1))

\* lines 315-316: every review of the run
mark_reviews_processed(n) == 0..(n - 1)

\* the for statement of line 280 takes its next value, or ends and lines
\* 315-316 run
next_chunk(c) ==
    IF range_step(c.i, c.batch_size) < c.n
    THEN [c EXCEPT !.i = range_step(c.i, c.batch_size), !.pc = "loop"]
    ELSE [c EXCEPT !.processed = mark_reviews_processed(c.n), !.pc = "done"]

\* lines 287-316 once analyze_batch_sync has returned result.pain_points: an
\* exception that left analyze_with_result is no AnalyzerError (line 137
\* catches those) and leaves the command
analyze_store ==
    /\ cli.pc = "awaiting"
    /\ run.pc \in {"returned", "raised"}
    /\ cli' = IF run.pc = "raised" THEN [cli EXCEPT !.pc = "raised"]
              ELSE next_chunk(
                     [cli EXCEPT
                        !.chunks = Append(@, [start |-> cli.i, len |-> run.n,
                                              failed_batches |-> result.failed_batches]),
                        !.saved = @ \o attributed(result.pain_points, cli.i,
                                                  run.n, cli.n)])
    /\ run' = IdleRun
    /\ UNCHANGED << result, dec, apiVars >>

\* ------------------------------------------------- the decoder on its own
Items ==
    {Obj(BaseFields, FALSE), Obj(BaseFields, TRUE), NUMBER}
        \cup {Obj(With("emotional_intensity", v), FALSE) :
                v \in {ABSENT, NULL, Jstr("HIGH"), Jstr("extreme"), Jstr("low")}}
        \cup {Obj(With("verbatim_quote", v), FALSE) :
                v \in {ABSENT, NULL, Jstr("")} \cup {Jstr(q) : q \in CommaClose}}
        \cup {Obj(With("review_number", v), FALSE) :
                v \in {ABSENT, NULL, Jstr("2"), Jstr("abc")}}

ItemLists == UNION {[1..n -> Items] : n \in 0..MaxItems}

\* the text of an array, with or without a comma before its closing bracket
ArrayText(items, trailing) ==
    << LBRACK >>
        \o (IF items = << >> THEN << >>
            ELSE join([i \in 1..Len(items) |-> << items[i] >>]))
        \o (IF trailing THEN << COMMA >> ELSE << >>)
        \o << RBRACK >>

Arrays == {ArrayText(items, tc) : items \in ItemLists, tc \in BOOLEAN}

\* an array in a json fence, in a plain fence, on its own, inside prose, after
\* a fenced block of prose, and cut before its closing bracket; prose alone
Texts ==
    {<< FENCE, JSONTAG >> \o a \o << FENCE >> : a \in Arrays}
        \cup {<< FENCE >> \o a \o << FENCE >> : a \in Arrays}
        \cup Arrays
        \cup {<< PROSE >> \o a \o << PROSE >> : a \in Arrays}
        \cup {<< FENCE, PROSE, FENCE >> \o a : a \in Arrays}
        \cup {SubSeq(a, 1, Len(a) - 1) : a \in Arrays}
        \cup {<< PROSE >>, << >>}

\* the records the claims call valid
ValidRecords ==
    {ExtractedPainPoint(rn, "Price", quote, intensity, need) :
        rn \in 1..2, quote \in {"too expensive"} \cup Fenced,
        intensity \in {"low", "medium", "high"}, need \in {"", "cheaper"}}

RecordLists == UNION {[1..n -> ValidRecords] : n \in 0..MaxItems}

IdleDec == [phase |-> "idle", records |-> << >>, text |-> << >>, out |-> Returned(<< >>)]

DecInputs ==
    {[IdleDec EXCEPT !.phase = "text", !.text = t] : t \in Texts}
        \cup {[IdleDec EXCEPT !.phase = "records", !.records = rs] : rs \in RecordLists}

encode_records ==
    /\ dec.phase = "records"
    /\ dec' = [dec EXCEPT !.phase = "encoded", !.text = encode(dec.records)]
    /\ UNCHANGED << run, result, cli, apiVars >>

\* _parse_response applied to the text
decode ==
    /\ dec.phase \in {"text", "encoded"}
    /\ dec' = [dec EXCEPT !.phase = IF @ = "encoded" THEN "decoded" ELSE "parsed",
                          !.out = parse_response(dec.text)]
    /\ UNCHANGED << run, result, cli, apiVars >>

\* ------------------------------------------------------------ specifications
InitApi ==
    /\ jobs = << >>
    /\ running_jobs = {}
    /\ task = [j \in JobIds |-> [pc |-> "none", must_cancel |-> FALSE]]
    /\ inserted = [j \in JobIds |-> 0]
    /\ events = [j \in JobIds |-> << >>]
    /\ response = Resp("none", 0, 0, "")
    /\ active_connections = {}
    /\ job_subscriptions = << >>
    /\ conn = [w \in WS |-> "new"]
    /\ bc = [c \in Callers |-> IdleCall]
    /\ sendlog = NoLog
    /\ delivered = [w \in WS |-> [k \in JobIds \cup {BROADCAST} |-> 0]]
    /\ analysis_running = FALSE
    /\ atask = [t \in RunIds |-> "none"]

Init ==
    /\ InitApi
    /\ run = IdleRun
    /\ result = AnalysisResult
    /\ dec = IdleDec
    /\ cli = IdleCli

\* the websocket endpoints of the connections in W
Endpoint(W, K) ==
    \/ \E w \in W : connect(w)
    \/ \E w \in W, k \in K, o \in SendOutcomes : receive_subscribe(w, k, o)
    \/ \E w \in W, o \in SendOutcomes : receive_ping(w, o)
    \/ \E w \in W : receive_disconnect(w)

SendAny == \E c \in Callers, w \in WS, sent \in BOOLEAN : send_text(c, w, sent)

\* the jobs API with its observers
Next ==
    \/ create_job
    \/ \E j \in JobIds : run_scrape_job_start(j)
    \/ \E j \in JobIds, o \in Outcomes : run_scrape_job_collected(j, o)
    \/ \E j \in JobIds : run_scrape_job_cancelled(j)
    \/ \E j \in ReqIds : cancel_job(j)
    \/ Endpoint(Observers, JobIds)
    \/ SendAny

Spec == Init /\ [][Next]_vars

\* the jobs API and the analysis API with their observers
NextApi ==
    \/ Next
    \/ \E reviews \in 0..1 : start_analysis(reviews)
    \/ \E t \in RunIds : run_analysis_start(t)

SpecApi == Init /\ [][NextApi]_vars

\* the analysis API with its observers
NextRuns ==
    \/ \E reviews \in 0..1 : start_analysis(reviews)
    \/ \E t \in RunIds : run_analysis_start(t)
    \/ Endpoint(WS, JobIds)
    \/ SendAny

SpecRuns == Init /\ [][NextRuns]_vars

\* a created run_analysis task is scheduled, and a pending send_text of its
\* broadcast call returns or raises
FairRuns ==
    /\ SpecRuns
    /\ \A t \in RunIds :
        /\ WF_vars(run_analysis_start(t))
        /\ WF_vars(\E w \in WS, sent \in BOOLEAN : send_text(Analysis(t), w, sent))

\* the hub alone, driven by its endpoint and by direct broadcast calls
NextHub ==
    \/ Endpoint(WS, HubIds)
    \/ \E j \in PubJobs : publish(j)
    \/ SendAny

SpecHub == Init /\ [][NextHub]_vars

\* the worker tasks are scheduled, the collector returns or raises, and a
\* pending send_text returns or raises
FairSpec ==
    /\ Spec
    /\ \A j \in JobIds :
        /\ WF_vars(run_scrape_job_start(j))
        /\ WF_vars(\E o \in Outcomes : run_scrape_job_collected(j, o))
        /\ WF_vars(run_scrape_job_cancelled(j))
        /\ WF_vars(\E w \in WS, sent \in BOOLEAN : send_text(Worker(j), w, sent))

\* Database.update_scrape_job called on its own, with any arguments, on the
\* rows that create_job and the worker task write (no websocket is connected
\* and no cancel_job request is made)
StatusArgs == {None} \cup {Some(st) : st \in JobStatus}
FoundArgs  == {None} \cup {Some(n) : n \in 0..MaxFound}
MsgArgs    == {None} \cup {Some(m) : m \in ExcMsgs}

\* the call returns None: the method has no raise statement
db_update(job_id, status, reviews_found, error_message) ==
    /\ jobs' = update_scrape_job(jobs, job_id, status, reviews_found, error_message)
    /\ response' = Resp("update_scrape_job", job_id, 0, "None")
    /\ UNCHANGED << running_jobs, task, inserted, events, hubVars, bc, sendlog, delivered, anaVars, libVars >>

NextDb ==
    \/ create_job
    \/ \E j \in JobIds : run_scrape_job_start(j)
    \/ \E j \in JobIds, o \in Outcomes : run_scrape_job_collected(j, o)
    \/ \E j \in ReqIds, st \in StatusArgs, rf \in FoundArgs, em \in MsgArgs :
          db_update(j, st, rf, em)

SpecDb == Init /\ [][NextDb]_vars

\* analyze_with_result called with any arguments, each extraction call
\* ending in any way
InitAnalyzer ==
    /\ InitApi
    /\ run \in RunArgs
    /\ result = AnalysisResult
    /\ dec = IdleDec
    /\ cli = IdleCli

NextAnalyzer ==
    \/ analyze_with_result
    \/ \E o \in CallOutcomes : process_single_batch(o)

SpecAnalyzer == InitAnalyzer /\ [][NextAnalyzer]_vars

\* the decoder applied to a text, or to the encoding of a list of records
InitDecoder ==
    /\ InitApi
    /\ run = IdleRun
    /\ result = AnalysisResult
    /\ dec \in DecInputs
    /\ cli = IdleCli

NextDecoder ==
    \/ encode_records
    \/ decode

SpecDecoder == InitDecoder /\ [][NextDecoder]_vars

\* the analyze command run over any reviews with any batch size, each
\* extraction call ending in any way
InitCli ==
    /\ InitApi
    /\ run = IdleRun
    /\ result = AnalysisResult
    /\ dec = IdleDec
    /\ cli \in CliArgs

NextCli ==
    \/ analyze
    \/ analyze_batch_sync
    \/ analyze_with_result
    \/ \E o \in CliOutcomes : process_single_batch(o)
    \/ analyze_store

SpecCli == InitCli /\ [][NextCli]_vars

\* ------------------------------------------------------------------ claims
Known(j) == j \in 1..Len(jobs)

Terminal(status) == status \in {"completed", "failed", "cancelled"}

\* job j's cancel_job request got past its checks (lines 221-225)
CancelAccepted(j) == bc[Cancel(j)].phase # "idle"

\* C1: once a job's stored status is completed, failed or cancelled, no step
\* of the worker task, of cancel_job or of a websocket changes that status.
TerminalIsFinal ==
    [][\A j \in JobIds :
          (Known(j) /\ Terminal(jobs[j].status))
              => jobs'[j].status = jobs[j].status]_vars

\* a cancel_job request met a job that had ended in a terminal status
TerminalIsFinalWitness ==
    \E j \in JobIds :
        /\ Known(j) /\ Terminal(jobs[j].status)
        /\ task[j].pc = "ended"
        /\ response = Resp("cancel_job", j, 400, "")

\* C2: when create_job has returned and the worker task has not started, the
\* stored status and the status of the returned snapshot are both pending.
CreatedIsPending ==
    (response.op = "create_job" /\ task[response.id].pc = "new")
        => /\ response.status = "pending"
           /\ jobs[response.id].status = "pending"

\* C3: an accepted cancel_job has signalled the job's task and leaves the
\* stored status cancelled.
CancelStoresCancelled ==
    \A j \in JobIds :
        CancelAccepted(j)
            => /\ task[j].must_cancel \/ task[j].pc = "ended"
               /\ jobs[j].status = "cancelled"

\* C4: once cancel_job has accepted a job, the job's worker task updates the
\* job's row no more, inserts no reviews, hands no further event to broadcast
\* and its pending broadcast call sends nothing more.
NoWorkAfterCancel ==
    [][\A j \in JobIds :
          CancelAccepted(j)
              => /\ jobs'[j] = jobs[j]
                 /\ inserted'[j] = inserted[j]
                 /\ events'[j] = events[j]
                 /\ bc'[Worker(j)] = bc[Worker(j)]]_vars

\* the task was cancelled inside its "running" broadcast and has ended
NoWorkAfterCancelWitness ==
    \E j \in JobIds :
        /\ CancelAccepted(j)
        /\ task[j].pc = "ended"
        /\ bc[Worker(j)].phase \in {"subs", "active"}

\* C5: cancel_job on a job in a terminal status, or on an unknown id, answers
\* with an error and changes neither the rows, running_jobs, the tasks, the
\* events nor any broadcast call.
CancelTerminalRejected ==
    [][\A j \in ReqIds :
          (cancel_job(j) /\ (~Known(j) \/ Terminal(jobs[j].status)))
              => /\ response'.op = "cancel_job" /\ response'.id = j
                 /\ response'.code \in {400, 404}
                 /\ UNCHANGED << jobs, running_jobs, task, events, bc >>]_vars

\* cancel_job was refused for a job in a terminal status
CancelTerminalRejectedWitness ==
    \E j \in JobIds :
        /\ Known(j) /\ Terminal(jobs[j].status)
        /\ response = Resp("cancel_job", j, 400, "")
        /\ Len(events[j]) >= 2

\* C6: update_scrape_job on a job in a terminal status, or on an unknown id,
\* fails with InvalidTransition and leaves the rows unchanged.
TransitionFromTerminalFails ==
    [][\A j \in ReqIds, st \in StatusArgs, rf \in FoundArgs, em \in MsgArgs :
          (db_update(j, st, rf, em) /\ (~Known(j) \/ Terminal(jobs[j].status)))
              => /\ response'.status = "InvalidTransition"
                 /\ jobs' = jobs]_vars

\* C7: when the collector call or the storing of its reviews raises, the job
\* is stored failed with the exception's message as error_message and a
\* failed event carrying that message is handed to broadcast.
WorkerFailureRecorded ==
    [][\A j \in JobIds, o \in Outcomes :
          (o.kind = "raise" /\ run_scrape_job_collected(j, o))
              => /\ jobs'[j].status = "failed"
                 /\ jobs'[j].error_message = Some(o.msg)
                 /\ events'[j] = Append(events[j], Event(j, "failed", None, Some(o.msg)))]_vars

\* C8: every created job eventually has a terminal stored status, and a job
\* whose task has ended and whose entry has left running_jobs is terminal.
EveryJobEnds ==
    /\ \A j \in JobIds : [](Known(j) => <>(Known(j) /\ Terminal(jobs[j].status)))
    /\ [](\A j \in JobIds :
             (task[j].pc = "ended" /\ j \notin running_jobs)
                 => Terminal(jobs[j].status))

\* a task ended by cancellation before it ever ran
EveryJobEndsWitness ==
    \E j \in JobIds :
        /\ task[j].pc = "ended" /\ j \notin running_jobs
        /\ Len(events[j]) = 1 /\ events[j][1].status = "cancelled"
        /\ Terminal(jobs[j].status)

\* C9: a broadcast call for a concrete job id sends to the websockets that
\* were subscribed to that id when it started and to those in
\* active_connections when its loop over all connections started, and to no
\* other: a websocket in neither set is sent nothing.
SentTo == {w \in WS : sendlog.tried[w] >= 1}

BroadcastJobTargets ==
    (bc[Pub].phase # "idle" /\ bc[Pub].job_id # BROADCAST)
        => /\ SentTo \subseteq sendlog.subs0 \cup sendlog.active1
           /\ bc[Pub].phase = "done" => SentTo = sendlog.subs0 \cup sendlog.active1

\* a call for job 5 has returned, somebody was sent the message, and a
\* websocket subscribed to job 7 only, outside active_connections, was not
BroadcastJobTargetsWitness ==
    /\ bc[Pub].phase = "done" /\ bc[Pub].job_id = 5
    /\ SentTo # {}
    /\ \E w \in WS :
          /\ w \in SubscribedTo(job_subscriptions, 7)
          /\ w \notin sendlog.subs0 \cup sendlog.active1
          /\ w \notin active_connections
          /\ sendlog.tried[w] = 0

\* C10: a broadcast call with the sentinel sends exactly once to every
\* websocket that was in active_connections when the call started, whatever
\* it is subscribed to, and to no other websocket.
BroadcastSentinelTargets ==
    (bc[Pub].phase # "idle" /\ bc[Pub].job_id = BROADCAST)
        => /\ \A w \in WS : sendlog.tried[w] <= (IF w \in sendlog.active1 THEN 1 ELSE 0)
           /\ bc[Pub].phase = "done" => \A w \in sendlog.active1 : sendlog.tried[w] = 1

\* a sentinel call has returned: a websocket of the pool that is subscribed
\* to job 5 was sent the message once, one outside the pool was not
BroadcastSentinelTargetsWitness ==
    /\ bc[Pub].phase = "done" /\ bc[Pub].job_id = BROADCAST
    /\ \E w \in sendlog.active1 :
          /\ w \in SubscribedTo(job_subscriptions, 5)
          /\ sendlog.tried[w] = 1
    /\ \E w \in WS :
          /\ w \notin sendlog.active1
          /\ conn[w] = "open"
          /\ w \in SubscribedTo(job_subscriptions, 5)
          /\ sendlog.tried[w] = 0

\* C11: a send_text that raises inside broadcast removes the websocket from
\* active_connections and from every job_subscriptions set, the call goes on
\* with the rest of its snapshot (it does not end there), and once the call
\* has returned every websocket of its snapshots has been sent to.
SendFailureIsolated ==
    /\ [][\A c \in Callers, w \in WS :
            send_text(c, w, FALSE)
                => /\ w \notin active_connections'
                   /\ \A k \in DOMAIN job_subscriptions' :
                         w \notin job_subscriptions'[k]
                   /\ bc'[c].phase \in {"subs", "active", "done"}
                   /\ (bc[c].todo \ {w}) \subseteq bc'[c].todo]_vars
    /\ [](bc[Pub].phase = "done"
            => \A w \in sendlog.subs0 \cup sendlog.active1 : sendlog.tried[w] >= 1)

\* a call has returned: the send to one websocket of the pool raised (it left
\* active_connections while its endpoint is still open) and another
\* websocket of the pool was sent the message and is still connected
SendFailureIsolatedWitness ==
    /\ bc[Pub].phase = "done"
    /\ \E w, w2 \in sendlog.active1 :
          /\ w # w2
          /\ sendlog.tried[w] >= 1 /\ conn[w] = "open" /\ w \notin active_connections
          /\ sendlog.tried[w2] >= 1 /\ w2 \in active_connections

\* C12: every event of jobs.py and analysis.py that is sent to a websocket
\* is, for its job id, no earlier in call order than the events of that job id
\* the websocket was sent before, whichever callers' broadcast calls are in
\* progress.
EventsInOrder ==
    [][\A c \in Callers \ {Pub}, w \in WS :
          send_text(c, w, TRUE)
              => EventNo(c) >= delivered[w][bc[c].job_id]]_vars

ActiveRuns == {t \in RunIds : atask[t] \notin {"none", "ended"}}

\* the worker's "running" call reached its second loop with a send to the
\* observer pending, the "cancelled" event of cancel_job has been sent to the
\* observer, and so has the event of a second analysis run
EventsInOrderWitness ==
    \E j \in JobIds, w \in WS :
        /\ bc[Worker(j)].phase = "active" /\ w \in bc[Worker(j)].todo
        /\ Len(events[j]) = 2 /\ events[j][2].status = "cancelled"
        /\ delivered[w][j] = 2
        /\ delivered[w][BROADCAST] = 2

\* C13: at most one run_analysis task is active at any time, and a
\* start_analysis request made while one is active answers 409 and changes
\* neither analysis_running nor the tasks.
OneAnalysisAtATime ==
    /\ [](Cardinality(ActiveRuns) <= 1)
    /\ [][\A reviews \in 0..1 :
            (start_analysis(reviews) /\ ActiveRuns # {})
                => /\ response' = Resp("start_analysis", 0, 409, "")
                   /\ UNCHANGED anaVars]_vars

\* a request was refused while the first run was inside its broadcast call
OneAnalysisAtATimeWitness ==
    /\ response = Resp("start_analysis", 0, 409, "")
    /\ atask[1] = "failing"
    /\ bc[Analysis(1)].phase = "active"

\* the smallest k with k * b >= n
Ceil(n, b) == CHOOSE k \in 0..n : k * b >= n /\ (k = 0 \/ (k - 1) * b < n)

Settling == 1..Len(run.log)

\* C14: when analyze_with_result has returned with fail_fast false, it has
\* attempted ceil(n / batch_size) batches, the k-th being the batch_size
\* reviews from (k - 1) * batch_size on (fewer at the end), and
\* successful_batches and failed_batches count each batch once and add up to
\* that number.
BatchesAttempted ==
    (run.pc = "returned" /\ ~run.fail_fast)
        => /\ Len(run.log) = Ceil(run.n, run.batch_size)
           /\ \A k \in Settling :
                 /\ run.log[k].start = (k - 1) * run.batch_size
                 /\ run.log[k].len = IF k * run.batch_size <= run.n
                                     THEN run.batch_size
                                     ELSE run.n - (k - 1) * run.batch_size
           /\ result.successful_batches = Cardinality({k \in Settling : run.log[k].ok})
           /\ result.failed_batches = Cardinality({k \in Settling : ~run.log[k].ok})
           /\ result.successful_batches + result.failed_batches
                 = Ceil(run.n, run.batch_size)

\* four reviews in batches of three: a full batch that succeeded and a batch
\* of one that failed
BatchesAttemptedWitness ==
    /\ run.pc = "returned" /\ ~run.fail_fast
    /\ run.n = 4 /\ run.batch_size = 3
    /\ Len(run.log) = 2 /\ run.log[1].ok /\ ~run.log[2].ok
    /\ run.log[2].len = 1

\* C15: a batch counted as failed whose extraction calls all failed with a
\* transient failure has made exactly 3 calls.
TransientRetried ==
    \A k \in Settling :
        (/\ ~run.log[k].ok
         /\ \A c \in 1..Len(run.log[k].calls) : run.log[k].calls[c] \in TransientErrors)
            => Len(run.log[k].calls) = 3

\* C16: a batch whose extraction call failed with a permanent failure has
\* made that one call only and is counted as failed; no call is made again
\* after a permanent failure.
PermanentNotRetried ==
    /\ \A c \in 1..Len(run.calls) : run.calls[c] \notin PermanentErrors
    /\ \A k \in Settling :
          run.log[k].calls[1] \in PermanentErrors
              => /\ Len(run.log[k].calls) = 1
                 /\ ~run.log[k].ok
    /\ result.failed_batches = Cardinality({k \in Settling : ~run.log[k].ok})

\* a batch failed on a bad request after one call and the next batch succeeded
PermanentNotRetriedWitness ==
    \E k \in Settling :
        /\ run.log[k].calls = << "BadRequestError" >>
        /\ ~run.log[k].ok
        /\ k < Len(run.log) /\ run.log[k + 1].ok
        /\ result.failed_batches = 1

RECURSIVE RecordsOf(_)
RecordsOf(log) ==
    IF log = << >> THEN << >>
    ELSE (IF Head(log).ok THEN Head(log).records ELSE << >>) \o RecordsOf(Tail(log))

RECURSIVE FailedFrom(_, _)
FailedFrom(log, k) ==
    IF k > Len(log) THEN << >>
    ELSE (IF log[k].ok THEN << >> ELSE << k >>) \o FailedFrom(log, k + 1)

UndecodableIsSuccess ==
    \A k \in Settling :
        run.log[k].calls[Len(run.log[k].calls)] = "text"
            => /\ parse_response(run.log[k].text).kind = "list"
               /\ run.log[k].ok

Decoded == dec.phase \in {"parsed", "decoded"}

\* C19: every record the decoder returns has emotional_intensity low, medium
\* or high.
IntensityClosed ==
    (Decoded /\ dec.out.kind = "list")
        => \A i \in 1..Len(dec.out.v) :
              dec.out.v[i].emotional_intensity \in {"low", "medium", "high"}

\* C20: decoding the encoding of a list of valid records returns the list.
RoundTrip ==
    dec.phase = "decoded"
        => /\ dec.out.kind = "list"
           /\ Len(dec.out.v) = Len(dec.records)
           /\ \A i \in 1..Len(dec.records) : dec.out.v[i] = dec.records[i]

\* the text without its commas before a closing bracket or brace
RECURSIVE NoTrailingComma(_)
NoTrailingComma(text) ==
    IF text = << >> THEN << >>
    ELSE IF Head(text) = COMMA /\ Len(text) > 1 /\ text[2] = RBRACK
    THEN NoTrailingComma(Tail(text))
    ELSE << IF Head(text).k = "obj" THEN [Head(text) EXCEPT !.tc = FALSE]
            ELSE Head(text) >> \o NoTrailingComma(Tail(text))

ArrayOf(json_text) == json_text.some /\ json_loads(json_text.v).ok

\* the text has a trailing comma and is a JSON array without it
OnlyTrailingComma(text) ==
    /\ text # NoTrailingComma(text)
    /\ ArrayOf(extract_json(NoTrailingComma(text)))

\* no opening bracket of the text has a closing bracket after it
NoBracketPair(text) ==
    ~\E i, j \in 1..Len(text) : i < j /\ text[i] = LBRACK /\ text[j] = RBRACK

\* C21: a text whose only defect is a trailing comma before a closing
\* bracket or brace decodes to what the text without that comma decodes to,
\* and a text with no "[" ... "]" pair decodes to the empty list.
DecoderTolerant ==
    dec.phase = "parsed"
        => /\ OnlyTrailingComma(dec.text)
                => dec.out = parse_response(NoTrailingComma(dec.text))
           /\ NoBracketPair(dec.text) => dec.out = Returned(<< >>)

\* C22: every pain point the analyze command inserts came from a record
\* whose review_number is between 1 and the length of its chunk, and is
\* given to the review at position chunk start + review_number - 1; a record
\* with another review_number is given to no review.
AttributedWithinChunk ==
    \A k \in 1..Len(cli.saved) :
        /\ cli.saved[k].review_number \in 1..cli.saved[k].len
        /\ cli.saved[k].review = cli.saved[k].start + cli.saved[k].review_number - 1

\* C23: no review of a chunk whose extraction failed is marked processed.
ProcessedOnlyAfterSuccess ==
    \A k \in 1..Len(cli.chunks) :
        cli.chunks[k].failed_batches > 0
            => \A p \in cli.chunks[k].start..(cli.chunks[k].start + cli.chunks[k].len - 1) :
                  p \notin cli.processed

\* C24: with fail_fast true a failed batch is the last batch attempted and
\* analyze_with_result has returned after it, failed_batches is at most 1,
\* and on return pain_points holds the records of the batches that succeeded.
StopsAtFirstFailure ==
    run.fail_fast
        => /\ \A k \in Settling :
                 ~run.log[k].ok => (k = Len(run.log) /\ run.pc = "returned")
           /\ result.failed_batches <= 1
           /\ run.pc = "returned" => result.pain_points = RecordsOf(run.log)

\* four reviews one at a time: the first batch gave a record, the second
\* failed, the other two were not attempted
StopsAtFirstFailureWitness ==
    /\ run.fail_fast /\ run.pc = "returned"
    /\ run.n = 4 /\ run.batch_size = 1
    /\ Len(run.log) = 2 /\ run.log[1].ok /\ ~run.log[2].ok
    /\ result.failed_batches = 1
    /\ Len(result.pain_points) = 1

RECURSIVE ReviewsIn(_)
ReviewsIn(log) == IF log = << >> THEN 0 ELSE Head(log).len + ReviewsIn(Tail(log))

\* C25: on return total_reviews_processed is the number of reviews in the
\* batches attempted, succeeded or failed.
ProcessedCountsAttempted ==
    run.pc = "returned" => result.total_reviews_processed = ReviewsIn(run.log)

\* C26: from the moment a worker hands a completed event to broadcast, the
\* job's row has status completed and the reviews_found the event carries,
\* and the worker's running event was handed to broadcast before it.
CompletedEventMatchesRow ==
    \A j \in JobIds : \A k \in 1..Len(events[j]) :
        events[j][k].status = "completed"
            => /\ \E i \in 1..(k - 1) : events[j][i].status = "running"
               /\ jobs[j].status = COMPLETED
               /\ Some(jobs[j].reviews_found) = events[j][k].reviews_found

\* the observer has been sent the completed event of a job that found a
\* review, and the worker has ended
CompletedEventMatchesRowWitness ==
    \E j \in JobIds :
        /\ Len(events[j]) = 2
        /\ events[j][2].status = "completed"
        /\ events[j][2].reviews_found = Some(1)
        /\ \E w \in Observers : delivered[w][j] = 2
        /\ task[j].pc = "ended"

\* C27: a status event handed to broadcast for a job names the status the
\* row of the job has at that moment.
EventNamesStoredStatus ==
    [][\A j \in JobIds :
          (Len(events'[j]) > Len(events[j]))
              => events'[j][Len(events'[j])].status = jobs'[j].status]_vars

\* C28: a broadcast call for a concrete job id calls send_text at most once
\* per websocket.
SentAtMostOnce ==
    ~is_sentinel(bc[Pub].job_id) => \A w \in WS : sendlog.tried[w] <= 1

\* C29: every websocket in a set of job_subscriptions is in
\* active_connections, and no set of job_subscriptions is empty.
SubscribersAreActive ==
    \A k \in DOMAIN job_subscriptions :
        /\ job_subscriptions[k] # {}
        /\ job_subscriptions[k] \subseteq active_connections

\* C30: every run_analysis task that start_analysis creates ends; when it
\* ends analysis_running becomes false and its one broadcast call, of a
\* terminal event, has returned; no broadcast call of a run begins after
\* that one; and a start_analysis that finds reviews when no run is active
\* is answered 200.
AnalysisRunEnds ==
    /\ \A t \in RunIds : [](atask[t] # "none" => <>(atask[t] = "ended"))
    /\ [](\A t \in RunIds :
             atask[t] = "ended"
                 => /\ bc[Analysis(t)].phase = "done"
                    /\ bc[Analysis(t)].status \in {"completed", "failed"})
    /\ [](ActiveRuns = {} => ~analysis_running)
    /\ [][\A t \in RunIds :
             /\ (atask[t] # "ended" /\ atask'[t] = "ended") => ~analysis_running'
             /\ bc[Analysis(t)].phase = "done" => bc'[Analysis(t)] = bc[Analysis(t)]
             /\ bc[Analysis(t)].phase \in {"subs", "active"}
                    => /\ bc'[Analysis(t)].todo \subseteq bc[Analysis(t)].todo
                       /\ bc'[Analysis(t)].status = bc[Analysis(t)].status]_vars
    /\ [][(start_analysis(1) /\ ActiveRuns = {}) => response'.code = 200]_vars

\* the first run has ended, an observer was sent its failed event, and a
\* second start_analysis has been accepted
AnalysisRunEndsWitness ==
    /\ atask[1] = "ended" /\ atask[2] = "new"
    /\ bc[Analysis(1)].phase = "done" /\ bc[Analysis(1)].status = "failed"
    /\ \E w \in WS : delivered[w][BROADCAST] = 1
    /\ analysis_running
    /\ response = Resp("start_analysis", 2, 200, "Analysis started")

====
